---- MODULE Spec2Model ----
(***************************************************************************)
(* A model of the recipe recorder (src/recorder.py) and the recipe runner  *)
(* (src/runner.py).                                                        *)
(*                                                                         *)
(* Python dictionaries iterate in insertion order, and assigning to a key  *)
(* that is already present keeps the key's position.  A dictionary is      *)
(* therefore modelled as a sequence of its values, in insertion order,     *)
(* with at most one entry per key.                                         *)
(*                                                                         *)
(* The timestamp of a step (datetime.now()) is modelled by a logical       *)
(* clock that ticks once per _add_step call.                               *)
(***************************************************************************)
EXTENDS Integers, Sequences, FiniteSets, TLC

VARIABLES
    pc,            \* position of start_recording
    recipe_name,   \* RecipeRecorder.recipe_name
    description,   \* RecipeRecorder.description
    steps,         \* RecipeRecorder.steps
    pending,       \* RecipeRecorder._last_fill_for_selector
    start_url,     \* local start_url of start_recording
    clock,         \* datetime.now(), one tick per _add_step
    file,          \* recipes.json
    browser,       \* the recorder's browser session
    raw,           \* history: every step dict built by _add_step, in order
    loadRaw,       \* history: the steps captured while page.goto was awaited
    armedRaw,      \* history: the steps captured by the command loop's awaits
    endedBy,       \* history: what ended the recording
    rpc,           \* position of run_recipe
    recipe,        \* run_recipe's recipe["steps"]
    inputs,        \* run_recipe's inputs (the override map)
    idx,           \* run_recipe's loop index i (0-based), the step being run
    calls,         \* history: the driver calls made by run_recipe, in order
    log,           \* the runner's log area, one entry per log() call
    closes,        \* history: number of browser.close() calls of run_recipe
    failedAt,      \* history: index of the step whose driver call failed, or -1
    doc,           \* the document the page shows
    target,        \* the element an event hit (e.target), 0 before the event
    result,        \* what getUniqueSelector(e.target) gave
    uiRecipes,     \* RecipeRunnerUI.recipes
    threads        \* the threads started by run_selected_recipe

recVars == <<pc, recipe_name, description, steps, pending, start_url, clock,
             file, browser, raw, loadRaw, armedRaw, endedBy>>
runVars == <<rpc, recipe, inputs, idx, calls, log, closes, failedAt>>
selVars == <<doc, target, result>>
uiVars == <<uiRecipes, threads>>
vars == <<recVars, runVars, selVars, uiVars>>

\* ---------------------------------------------------------------- bounds
MaxEvents == 4       \* events captured by one command loop
MaxLoadEvents == 1   \* events captured while the start page loads
MaxFeed == 5         \* length of a raw event stream fed to the reducer
MaxRecipeLen == 3    \* steps of a replayed recipe
MaxStored == 3       \* recipes in recipes.json
MaxStoreEvents == 1  \* events of one recording of a sequence of recordings
MaxPlaceFeed == 3    \* events of a recording whose placeholders are extracted
MaxNodes == 3        \* elements of a document
MaxThreads == 2      \* presses of the Run button
MaxReloads == 1      \* presses of the Reload button

\* ------------------------------------------------------- small input sets
StartUrl == "https://example.test"
Urls == {StartUrl, "https://example.test/home"}
Names == {"login"}
DefaultPromptMessage == "Enter value"

\* the steps the browser's listeners hand to _add_step
FillData(S, V) == {[selector |-> s, value |-> v] : s \in S, v \in V}
ClickData(S) == {[selector |-> s, text |-> "Go"] : s \in S}
NavData(U) == {[url |-> u] : u \in U}

\* ------------------------------------------------------------ dictionary
\* d[key] = step on a Python dict whose values are fill steps keyed by
\* their selector: overwrite in place when the key exists, else append.
HasKey(d, sel) == \E k \in 1..Len(d) : d[k].selector = sel

DictSet(d, step) ==
    IF HasKey(d, step.selector)
    THEN [k \in 1..Len(d) |-> IF d[k].selector = step.selector THEN step ELSE d[k]]
    ELSE Append(d, step)

\* ------------------------------------------------------------- _add_step
\* the step dict built at the top of _add_step
MkStep(action, data, now) ==
    CASE action = "fill" ->
            [action |-> action, timestamp |-> now,
             selector |-> data.selector, value |-> data.value]
      [] action = "click" ->
            [action |-> action, timestamp |-> now,
             selector |-> data.selector, text |-> data.text]
      [] action = "navigate" ->
            [action |-> action, timestamp |-> now, url |-> data.url]
      [] action = "prompt" ->
            [action |-> action, timestamp |-> now, message |-> data.message]

\* the fill branch: self._last_fill_for_selector[selector] = step
PutPendingKeepFirst(pend, step) ==
    IF HasKey(pend, step.selector) THEN pend ELSE Append(pend, step)

PutPendingMoveToEnd(pend, step) ==
    Append(SelectSeq(pend, LAMBDA s : s.selector # step.selector), step)

PutPending(pend, step) == DictSet(pend, step)

\* the non-fill branch: flush the pending fills, then append the step
FlushAndAppendStepFirst(stps, pend, step) == stps \o <<step>> \o pend

FlushAndAppend(stps, pend, step) == stps \o pend \o <<step>>

\* _add_step(action, data) as a whole
AddStep(action, data) ==
    LET step == MkStep(action, data, clock) IN
    /\ clock' = clock + 1
    /\ raw' = Append(raw, step)
    /\ IF action = "fill"
       THEN /\ pending' = PutPending(pending, step)
            /\ steps' = steps
       ELSE /\ steps' = FlushAndAppend(steps, pending, step)
            /\ pending' = <<>>

\* -------------------------------------------------------- _collapse_fills
RECURSIVE CollapseLoop(_, _, _)
CollapseLoop(stps, collapsed, last_fills) ==
    IF stps = <<>>
    THEN collapsed \o last_fills
    ELSE LET step == Head(stps) IN
         IF step.action = "fill"
         THEN CollapseLoop(Tail(stps), collapsed, DictSet(last_fills, step))
         ELSE CollapseLoop(Tail(stps), (collapsed \o last_fills) \o <<step>>, <<>>)

\* a collapse that appends the non-fill step before it flushes the run
RECURSIVE CollapseLoopFlushAfter(_, _, _)
CollapseLoopFlushAfter(stps, collapsed, last_fills) ==
    IF stps = <<>>
    THEN collapsed \o last_fills
    ELSE LET step == Head(stps) IN
         IF step.action = "fill"
         THEN CollapseLoopFlushAfter(Tail(stps), collapsed, DictSet(last_fills, step))
         ELSE CollapseLoopFlushAfter(Tail(stps), (collapsed \o <<step>>) \o last_fills, <<>>)

CollapseFillsFlushAfter(stps) == CollapseLoopFlushAfter(stps, <<>>, <<>>)

CollapseFills(stps) == CollapseLoop(stps, <<>>, <<>>)

\* ---------------------------------------------------- _extract_placeholders
\* The strings of this model, as the characters the regular expression
\* scans: the recorded values, and the names found between braces.
Strings == {"a", "ab", "abc", "{n}", "{n}-{o}", "{}", "{n", "{b}", "{m}",
            "n", "o", "b", "m"}

Chars(str) ==
    CASE str = "a" -> <<"a">>
      [] str = "ab" -> <<"a", "b">>
      [] str = "abc" -> <<"a", "b", "c">>
      [] str = "{n}" -> <<"{", "n", "}">>
      [] str = "{n}-{o}" -> <<"{", "n", "}", "-", "{", "o", "}">>
      [] str = "{}" -> <<"{", "}">>
      [] str = "{n" -> <<"{", "n">>
      [] str = "{b}" -> <<"{", "b", "}">>
      [] str = "{m}" -> <<"{", "m", "}">>
      [] str = "n" -> <<"n">>
      [] str = "o" -> <<"o">>
      [] str = "b" -> <<"b">>
      [] str = "m" -> <<"m">>

\* the string made of the characters cs
Text(cs) == CHOOSE str \in Strings : Chars(str) = cs

\* the position of the first "}" of cs at or after i, or 0
RECURSIVE FirstClose(_, _)
FirstClose(cs, i) ==
    IF i > Len(cs) THEN 0
    ELSE IF cs[i] = "}" THEN i
    ELSE FirstClose(cs, i + 1)

\* re.findall(r'\{([^}]+)\}', value), scanning from position i: the groups
\* of the leftmost, non-overlapping matches
RECURSIVE FindAllFrom(_, _)
FindAllFrom(cs, i) ==
    IF i > Len(cs) THEN {}
    ELSE IF cs[i] = "{" /\ FirstClose(cs, i + 1) > i + 1
    THEN {Text(SubSeq(cs, i + 1, FirstClose(cs, i + 1) - 1))}
         \cup FindAllFrom(cs, FirstClose(cs, i + 1) + 1)
    ELSE FindAllFrom(cs, i + 1)

FindAll(value) == FindAllFrom(Chars(value), 1)

\* an extraction that scans every text field of a step
TextFieldsOf(step) ==
    {step[f] : f \in (DOMAIN step) \cap {"value", "text", "message"}}

ExtractPlaceholdersAllFields(stps) ==
    UNION {FindAll(t) : t \in UNION {TextFieldsOf(stps[k]) : k \in 1..Len(stps)}}

\* placeholders is a set; list(placeholders) has the set's iteration order
ExtractPlaceholders(stps) ==
    UNION {FindAll(stps[k].value) :
             k \in {j \in 1..Len(stps) : "value" \in DOMAIN stps[j]}}

\* ----------------------------------------------------------- _save_recipe
\* recipes.json: absent, empty, unparsable, or a readable list of recipes
Absent == [state |-> "absent", recipes |-> <<>>]
Invalid == [state |-> "invalid", recipes |-> <<>>]
OldRecipe == [name |-> "old", description |-> "", created |-> 0,
              steps |-> <<>>, placeholders |-> {}]
Readable(rs) == [state |-> "ok", recipes |-> rs]
InitFiles == {Absent, Invalid, Readable(<<OldRecipe>>)}

\* the list _save_recipe starts from
ReadRecipesFresh(f) == <<>>

ReadRecipes(f) == IF f.state = "ok" THEN f.recipes ELSE <<>>

\* the flush at the top of _save_recipe
FlushedSteps(stps, pend) == stps \o pend

MkRecipe(name, desc, now, collapsed) ==
    [name |-> name, description |-> desc, created |-> now,
     steps |-> collapsed, placeholders |-> ExtractPlaceholders(collapsed)]

SaveRecipe ==
    LET flushed == FlushedSteps(steps, pending)
        collapsed == CollapseFills(flushed)
        rec == MkRecipe(recipe_name, description, clock, collapsed)
    IN /\ steps' = flushed
       /\ pending' = <<>>
       /\ file' = Readable(Append(ReadRecipes(file), rec))

\* ------------------------------------------------------- start_recording
\* what the page's listeners can deliver: recordClick, recordInput and
\* framenavigated of the main frame
SessionSelectors == {"#q"}
SessionValues == {"a", "ab", "abc"}
ClickSelectors == {"#submit"}

BrowserEvents ==
    {<<"fill", d>> : d \in FillData(SessionSelectors, SessionValues)}
    \cup {<<"click", d>> : d \in ClickData(ClickSelectors)}
    \cup {<<"navigate", d>> : d \in NavData(Urls)}

\* lines typed into the command loop
Lines == {"stop", "STOP", ":prompt", ":prompt OTP", "help"}
IsStop(line) == line \in {"stop", "STOP"}
IsPrompt(line) == line \in {":prompt", ":prompt OTP"}
PromptMessage(line) == IF line = ":prompt OTP" THEN "OTP" ELSE DefaultPromptMessage

\* lines 28-46: reset the recorder, launch the browser, register listeners
StartRecording ==
    /\ pc = "idle"
    /\ \E n \in Names :
         /\ recipe_name' = n
         /\ description' = ""
    /\ steps' = <<>>
    /\ pending' = <<>>
    /\ browser' = "open"
    /\ pc' = "ask_url"
    /\ UNCHANGED <<start_url, clock, file, raw, loadRaw, armedRaw, endedBy, runVars, selVars, uiVars>>

\* line 49: Prompt.ask returns the start URL
AskUrl ==
    /\ pc = "ask_url"
    /\ start_url' = StartUrl
    /\ pc' = "goto"
    /\ UNCHANGED <<recipe_name, description, steps, pending, clock, file,
                   browser, raw, loadRaw, armedRaw, endedBy, runVars, selVars, uiVars>>

\* line 49: KeyboardInterrupt while Prompt.ask waits; it is outside the try
\* of the command loop and leaves start_recording
InterruptAskUrl ==
    /\ pc = "ask_url"
    /\ pc' = "aborted"
    /\ endedBy' = "interrupt"
    /\ UNCHANGED <<recipe_name, description, steps, pending, start_url, clock,
                   file, browser, raw, loadRaw, armedRaw, runVars, selVars, uiVars>>

\* line 50: a listener runs while page.goto is awaited
DeliverWhileLoading ==
    /\ pc = "goto"
    /\ Len(loadRaw) < MaxLoadEvents
    /\ \E e \in BrowserEvents :
         /\ AddStep(e[1], e[2])
         /\ loadRaw' = Append(loadRaw, MkStep(e[1], e[2], clock))
    /\ UNCHANGED <<pc, recipe_name, description, start_url, file, browser,
                   armedRaw, endedBy, runVars, selVars, uiVars>>

\* line 50: KeyboardInterrupt while page.goto is awaited
InterruptGoto ==
    /\ pc = "goto"
    /\ pc' = "aborted"
    /\ endedBy' = "interrupt"
    /\ UNCHANGED <<recipe_name, description, steps, pending, start_url, clock,
                   file, browser, raw, loadRaw, armedRaw, runVars, selVars, uiVars>>

\* line 50: page.goto raises (navigation error, timeout)
GotoFails ==
    /\ pc = "goto"
    /\ pc' = "aborted"
    /\ endedBy' = "error"
    /\ UNCHANGED <<recipe_name, description, steps, pending, start_url, clock,
                   file, browser, raw, loadRaw, armedRaw, runVars, selVars, uiVars>>

\* lines 50-54: page.goto returns, the start navigate step is added
GotoDone ==
    /\ pc = "goto"
    /\ AddStep("navigate", [url |-> start_url])
    /\ pc' = "armed"
    /\ UNCHANGED <<recipe_name, description, start_url, file, browser,
                   loadRaw, armedRaw, endedBy, runVars, selVars, uiVars>>

\* lines 59-61: a listener runs while the command loop awaits input()
DeliverWhileArmed ==
    /\ pc = "armed"
    /\ Len(armedRaw) < MaxEvents
    /\ \E e \in BrowserEvents :
         /\ AddStep(e[1], e[2])
         /\ armedRaw' = Append(armedRaw, MkStep(e[1], e[2], clock))
    /\ UNCHANGED <<pc, recipe_name, description, start_url, file, browser,
                   loadRaw, endedBy, runVars, selVars, uiVars>>

\* lines 71-72: browser.close() and _save_recipe()
CloseAndSave(why) ==
    /\ browser' = "closed"
    /\ SaveRecipe
    /\ pc' = "done"
    /\ endedBy' = why
    /\ UNCHANGED <<recipe_name, description, start_url, clock, raw, loadRaw,
                   armedRaw, runVars, selVars, uiVars>>

\* lines 59-67: one line of the command loop
Command ==
    /\ pc = "armed"
    /\ \E line \in Lines :
         IF IsStop(line)
         THEN CloseAndSave("stop")
         ELSE IF IsPrompt(line)
         THEN /\ Len(armedRaw) < MaxEvents
              /\ AddStep("prompt", [message |-> PromptMessage(line)])
              /\ armedRaw' = Append(armedRaw,
                     MkStep("prompt", [message |-> PromptMessage(line)], clock))
              /\ UNCHANGED <<pc, recipe_name, description, start_url, file,
                             browser, loadRaw, endedBy, runVars, selVars, uiVars>>
         ELSE UNCHANGED vars

\* lines 68-69: KeyboardInterrupt inside the try of the command loop
InterruptLoop ==
    /\ pc = "armed"
    /\ CloseAndSave("interrupt")

RecInit ==
    /\ pc = "idle"
    /\ recipe_name = ""
    /\ description = ""
    /\ steps = <<>>
    /\ pending = <<>>
    /\ start_url = ""
    /\ clock = 1
    /\ file \in InitFiles
    /\ browser = "none"
    /\ raw = <<>>
    /\ loadRaw = <<>>
    /\ armedRaw = <<>>
    /\ endedBy = "none"

RunIdle ==
    /\ rpc = "idle"
    /\ recipe = <<>>
    /\ inputs = <<>>
    /\ idx = 0
    /\ calls = <<>>
    /\ log = <<>>
    /\ closes = 0
    /\ failedAt = -1

\* no page event yet, no runner window
NoDoc == [parent |-> <<>>, elem |-> <<>>]
NoResult == [kind |-> "none"]

SelIdle ==
    /\ doc = NoDoc
    /\ target = 0
    /\ result = NoResult

UIIdle ==
    /\ uiRecipes = <<>>
    /\ threads = <<>>

Init == RecInit /\ RunIdle /\ SelIdle /\ UIIdle

Next ==
    \/ StartRecording
    \/ AskUrl
    \/ InterruptAskUrl
    \/ DeliverWhileLoading
    \/ InterruptGoto
    \/ GotoFails
    \/ GotoDone
    \/ DeliverWhileArmed
    \/ Command
    \/ InterruptLoop

Spec == Init /\ [][Next]_vars

\* ----------------------------------------------- the reducer on raw streams
\* Every raw event stream is fed to _add_step, one event at a time, and then
\* saved by _save_recipe.
ReduceSelectors == {"#q", "#x"}
ReduceValues == {"a", "abc"}

ReduceEvents ==
    {<<"fill", d>> : d \in FillData(ReduceSelectors, ReduceValues)}
    \cup {<<"click", d>> : d \in ClickData(ClickSelectors)}
    \cup {<<"navigate", d>> : d \in NavData({StartUrl})}
    \cup {<<"prompt", [message |-> DefaultPromptMessage]>>}

Feed ==
    /\ pc = "feed"
    /\ Len(raw) < MaxFeed
    /\ \E e \in ReduceEvents : AddStep(e[1], e[2])
    /\ UNCHANGED <<pc, recipe_name, description, start_url, file, browser,
                   loadRaw, armedRaw, endedBy, runVars, selVars, uiVars>>

SaveFed ==
    /\ pc = "feed"
    /\ SaveRecipe
    /\ pc' = "saved"
    /\ UNCHANGED <<recipe_name, description, start_url, clock, browser, raw,
                   loadRaw, armedRaw, endedBy, runVars, selVars, uiVars>>

ReduceInit ==
    /\ pc = "feed"
    /\ recipe_name = "login"
    /\ description = ""
    /\ steps = <<>>
    /\ pending = <<>>
    /\ start_url = ""
    /\ clock = 1
    /\ file = Absent
    /\ browser = "none"
    /\ raw = <<>>
    /\ loadRaw = <<>>
    /\ armedRaw = <<>>
    /\ endedBy = "none"

ReduceNext == Feed \/ SaveFed

ReduceStart == ReduceInit /\ RunIdle /\ SelIdle /\ UIIdle

SpecReduce == ReduceStart /\ [][ReduceNext]_vars

\* ------------------------------------------------------------ run_recipe
RunSelectors == {"#q", "#x"}
RecordedValues == {"abc", "xyz"}
OverrideValues == {"override-value", "abc"}

\* the steps a recipe of recipes.json can hold
RunSteps ==
    {[action |-> "navigate", timestamp |-> 0, url |-> StartUrl]}
    \cup {[action |-> "click", timestamp |-> 0, selector |-> "#submit", text |-> "Go"]}
    \cup {[action |-> "fill", timestamp |-> 0, selector |-> s, value |-> v] :
            s \in RunSelectors, v \in RecordedValues}
    \cup {[action |-> "wait", timestamp |-> 0, delayMs |-> 250],
          [action |-> "wait", timestamp |-> 0, delay |-> 250]}
    \cup {[action |-> "prompt", timestamp |-> 0, message |-> DefaultPromptMessage]}

Recipes == UNION {[1..n -> RunSteps] : n \in 0..MaxRecipeLen}

\* the override maps: any subset of the selectors, each with a value
OverrideMaps == UNION {[S -> OverrideValues] : S \in SUBSET RunSelectors}

\* inputs.get(step["selector"], step["value"])
EffectiveValueRecorded(inp, step) == step.value

EffectiveValue(inp, step) ==
    IF step.selector \in DOMAIN inp THEN inp[step.selector] ELSE step.value

\* step.get("delay", 1000)
DefaultDelay == 1000
WaitDelay(step) == IF "delay" \in DOMAIN step THEN step.delay ELSE DefaultDelay

\* the call run_recipe makes for a step: a driver call, a sleep, or none
CallOf(inp, i, step) ==
    CASE step.action = "navigate" ->
            <<[i |-> i, op |-> "goto", target |-> step.url, value |-> ""]>>
      [] step.action = "click" ->
            <<[i |-> i, op |-> "click", target |-> step.selector, value |-> ""]>>
      [] step.action = "fill" ->
            <<[i |-> i, op |-> "fill", target |-> step.selector,
               value |-> EffectiveValue(inp, step)]>>
      [] step.action = "wait" ->
            <<[i |-> i, op |-> "sleep", target |-> "", value |-> WaitDelay(step)]>>
      [] OTHER -> <<>>

IsDriverAction(a) == a \in {"navigate", "click", "fill"}
IsKnownAction(a) == a \in {"navigate", "click", "fill", "wait"}

LogEntry(kind, i, detail) == [kind |-> kind, i |-> i, detail |-> detail]

\* lines 107-112: log the start, launch the browser, open a page
Launch ==
    /\ rpc = "start"
    /\ log' = Append(log, LogEntry("running", -1, "login"))
    /\ idx' = 0
    /\ rpc' = "loop"
    /\ UNCHANGED <<recVars, selVars, uiVars, recipe, inputs, calls, closes, failedAt>>

\* lines 132-133: a raised driver call leaves the loop for the except clause
OnFailureSwallowed(i) == [rpc |-> "loop", idx |-> i + 1]

OnFailure(i) == [rpc |-> "finally", idx |-> i]

\* lines 128-129: an action that is none of navigate, click, fill, wait
OnUnknownAborts(i) == [rpc |-> "finally", idx |-> i]

OnUnknown(i) == [rpc |-> "loop", idx |-> i + 1]

\* lines 115-129: one iteration of the loop
RunStep ==
    /\ rpc = "loop"
    /\ idx < Len(recipe)
    /\ LET step == recipe[idx + 1]
           logged == Append(log, LogEntry("step", idx, step.action))
       IN /\ calls' = calls \o CallOf(inputs, idx, step)
          /\ \/ /\ IsDriverAction(step.action)      \* the driver call returns
                /\ idx' = idx + 1
                /\ log' = logged
                /\ UNCHANGED <<rpc, failedAt>>
             \/ /\ IsDriverAction(step.action)      \* the driver call raises
                /\ rpc' = OnFailure(idx).rpc
                /\ idx' = OnFailure(idx).idx
                /\ failedAt' = idx
                /\ log' = Append(logged, LogEntry("error", idx, step.action))
             \/ /\ step.action = "wait"
                /\ idx' = idx + 1
                /\ log' = logged
                /\ UNCHANGED <<rpc, failedAt>>
             \/ /\ ~IsKnownAction(step.action)
                /\ rpc' = OnUnknown(idx).rpc
                /\ idx' = OnUnknown(idx).idx
                /\ log' = Append(logged, LogEntry("unknown", idx, step.action))
                /\ UNCHANGED failedAt
    /\ UNCHANGED <<recVars, selVars, uiVars, recipe, inputs, closes>>

\* line 131: the loop ran to its end
FinishLoop ==
    /\ rpc = "loop"
    /\ idx = Len(recipe)
    /\ log' = Append(log, LogEntry("success", -1, ""))
    /\ rpc' = "finally"
    /\ UNCHANGED <<recVars, selVars, uiVars, recipe, inputs, idx, calls, closes, failedAt>>

\* lines 134-136: the finally clause closes the browser
Finally ==
    /\ rpc = "finally"
    /\ closes' = closes + 1
    /\ rpc' = "done"
    /\ UNCHANGED <<recVars, selVars, uiVars, recipe, inputs, idx, calls, log, failedAt>>

RecIdle ==
    /\ pc = "idle"
    /\ recipe_name = ""
    /\ description = ""
    /\ steps = <<>>
    /\ pending = <<>>
    /\ start_url = ""
    /\ clock = 1
    /\ file = Absent
    /\ browser = "none"
    /\ raw = <<>>
    /\ loadRaw = <<>>
    /\ armedRaw = <<>>
    /\ endedBy = "none"

RunInit ==
    /\ rpc = "start"
    /\ recipe \in Recipes
    /\ inputs \in OverrideMaps
    /\ idx = 0
    /\ calls = <<>>
    /\ log = <<>>
    /\ closes = 0
    /\ failedAt = -1

RunNext == Launch \/ RunStep \/ FinishLoop \/ Finally

RunStart == RecIdle /\ RunInit /\ SelIdle /\ UIIdle

SpecRun == RunStart /\ [][RunNext]_vars

\* ------------------------------------------------ a sequence of recordings
\* main() is run again and again on the same recipes.json: each run builds a
\* recorder, asks for a name, records a few events and saves.
StoreNames == {"login", "old", ""}

StoreEvents ==
    {<<"fill", d>> : d \in FillData({"#q"}, {"abc"})}
    \cup {<<"click", d>> : d \in ClickData(ClickSelectors)}

\* lines 251-256 and 28-31: a new recorder, the name, the reset
StoreBegin ==
    /\ pc \in {"sidle", "ssaved"}
    /\ Len(ReadRecipes(file)) < MaxStored
    /\ \E n \in StoreNames : recipe_name' = n
    /\ description' = ""
    /\ steps' = <<>>
    /\ pending' = <<>>
    /\ raw' = <<>>
    /\ pc' = "srec"
    /\ UNCHANGED <<start_url, clock, file, browser, loadRaw, armedRaw, endedBy,
                   runVars, selVars, uiVars>>

StoreCapture ==
    /\ pc = "srec"
    /\ Len(raw) < MaxStoreEvents
    /\ \E e \in StoreEvents : AddStep(e[1], e[2])
    /\ UNCHANGED <<pc, recipe_name, description, start_url, file, browser,
                   loadRaw, armedRaw, endedBy, runVars, selVars, uiVars>>

\* line 72
StoreSave ==
    /\ pc = "srec"
    /\ SaveRecipe
    /\ pc' = "ssaved"
    /\ UNCHANGED <<recipe_name, description, start_url, clock, browser, raw,
                   loadRaw, armedRaw, endedBy, runVars, selVars, uiVars>>

StoreInit ==
    /\ pc = "sidle"
    /\ recipe_name = ""
    /\ description = ""
    /\ steps = <<>>
    /\ pending = <<>>
    /\ start_url = ""
    /\ clock = 1
    /\ file \in InitFiles
    /\ browser = "none"
    /\ raw = <<>>
    /\ loadRaw = <<>>
    /\ armedRaw = <<>>
    /\ endedBy = "none"

StoreStart == StoreInit /\ RunIdle /\ SelIdle /\ UIIdle

StoreNext == StoreBegin \/ StoreCapture \/ StoreSave

SpecStore == StoreStart /\ [][StoreNext]_vars

\* ------------------------------------------- recordings with placeholders
\* Streams whose fill values, click texts and prompt messages hold braces,
\* fed to _add_step and saved.
PlaceValues == {"abc", "{n}", "{n}-{o}", "{}", "{n"}

PlaceEvents ==
    {<<"fill", d>> : d \in FillData(ReduceSelectors, PlaceValues)}
    \cup {<<"click", [selector |-> "#submit", text |-> "{b}"]>>}
    \cup {<<"prompt", [message |-> "{m}"]>>}

PlaceFeed ==
    /\ pc = "pfeed"
    /\ Len(raw) < MaxPlaceFeed
    /\ \E e \in PlaceEvents : AddStep(e[1], e[2])
    /\ UNCHANGED <<pc, recipe_name, description, start_url, file, browser,
                   loadRaw, armedRaw, endedBy, runVars, selVars, uiVars>>

PlaceSave ==
    /\ pc = "pfeed"
    /\ SaveRecipe
    /\ pc' = "psaved"
    /\ UNCHANGED <<recipe_name, description, start_url, clock, browser, raw,
                   loadRaw, armedRaw, endedBy, runVars, selVars, uiVars>>

PlaceInit ==
    /\ pc = "pfeed"
    /\ recipe_name = "login"
    /\ description = ""
    /\ steps = <<>>
    /\ pending = <<>>
    /\ start_url = ""
    /\ clock = 1
    /\ file = Absent
    /\ browser = "none"
    /\ raw = <<>>
    /\ loadRaw = <<>>
    /\ armedRaw = <<>>
    /\ endedBy = "none"

PlaceStart == PlaceInit /\ RunIdle /\ SelIdle /\ UIIdle

PlaceNext == PlaceFeed \/ PlaceSave

SpecPlace == PlaceStart /\ [][PlaceNext]_vars

\* ----------------------------------------------------- getUniqueSelector
\* A document is a tree of elements: element 1 is the root, parent[n] < n is
\* the parent of element n, and the children of an element are in index
\* order.  An element has a tag, the attributes id, name, aria-label and
\* placeholder ("" when absent) and the list el.className.split(/\s+/)
\* gives: empty without a class, with an empty string in it when the
\* attribute ends in white space.
El(tag, id, name, aria, ph, classes) ==
    [tag |-> tag, id |-> id, name |-> name, aria |-> aria,
     placeholder |-> ph, classes |-> classes]

RootKinds == {El("html", "", "", "", "", <<>>), El("html", "i", "", "", "", <<>>)}

ElementKinds ==
    {El("input", "", "", "", "", <<>>),
     El("input", "i", "", "", "", <<>>),
     El("input", "", "n", "", "", <<>>),
     El("input", "", "", "l", "", <<>>),
     El("input", "", "", "", "p", <<>>),
     El("input", "i", "n", "", "", <<>>),
     El("div", "", "", "", "", <<>>),
     El("div", "", "", "", "", <<"c">>),
     El("div", "", "", "", "", <<"c", "d", "e">>),
     El("div", "", "", "", "", <<"c", "d", "e", "f">>),
     El("div", "", "", "", "", <<"c", "">>),
     El("html", "", "", "", "", <<>>)}

ParentMaps(n) ==
    {p \in [1..n -> 0..n] : p[1] = 0 /\ \A k \in 2..n : p[k] \in 1..(k - 1)}

ElementMaps(n) ==
    {e \in [1..n -> RootKinds \cup ElementKinds] :
        e[1] \in RootKinds /\ \A k \in 2..n : e[k] \in ElementKinds}

Docs ==
    UNION {{[parent |-> p, elem |-> e] : p \in ParentMaps(n), e \in ElementMaps(n)} :
             n \in 1..MaxNodes}

NodesOf(d) == 1..Len(d.elem)
ClassSet(e) == {e.classes[k] : k \in 1..Len(e.classes)} \ {""}

\* Array.from(el.parentElement.children).indexOf(el) + 1
ChildIndex(d, el) ==
    Cardinality({n \in NodesOf(d) : d.parent[n] = d.parent[el] /\ n < el}) + 1

\* the selectors getUniqueSelector builds
AttrSel(rule, v) == [kind |-> rule, val |-> v]
ClassSel(tag, classes) == [kind |-> "class", tag |-> tag, classes |-> classes]
ChildSel(psel, tag, index) ==
    [kind |-> "child", parent |-> psel, tag |-> tag, index |-> index]
TagSel(tag) == [kind |-> "tag", tag |-> tag]
Throws == [kind |-> "throws"]

AttrOf(e, rule) ==
    CASE rule = "id" -> e.id
      [] rule = "name" -> e.name
      [] rule = "aria" -> e.aria
      [] rule = "placeholder" -> e.placeholder

\* document.querySelectorAll(selector): the elements the selector matches
RECURSIVE Matches(_, _)
Matches(d, sel) ==
    CASE sel.kind \in {"id", "name", "aria", "placeholder"} ->
            {n \in NodesOf(d) : AttrOf(d.elem[n], sel.kind) = sel.val}
      [] sel.kind = "class" ->
            {n \in NodesOf(d) :
                /\ d.elem[n].tag = sel.tag
                /\ \A k \in 1..Len(sel.classes) : sel.classes[k] \in ClassSet(d.elem[n])}
      [] sel.kind = "child" ->
            {n \in NodesOf(d) :
                /\ d.parent[n] # 0
                /\ d.elem[n].tag = sel.tag
                /\ Cardinality({m \in NodesOf(d) :
                                   d.parent[m] = d.parent[n] /\ m < n}) + 1 = sel.index
                /\ d.parent[n] \in Matches(d, sel.parent)}
      [] sel.kind = "tag" ->
            {n \in NodesOf(d) : d.elem[n].tag = sel.tag}

\* the order of rules 1-4
RuleOrderNameFirst == <<"name", "id", "aria", "placeholder">>

RuleOrder == <<"id", "name", "aria", "placeholder">>

\* rules 1-4 from the k-th on: the first attribute that is set and whose
\* selector matches one element
RECURSIVE AttrRules(_, _, _)
AttrRules(d, el, k) ==
    IF k > Len(RuleOrder) THEN NoResult
    ELSE LET v == AttrOf(d.elem[el], RuleOrder[k]) IN
         IF v # "" /\ Cardinality(Matches(d, AttrSel(RuleOrder[k], v))) = 1
         THEN AttrSel(RuleOrder[k], v)
         ELSE AttrRules(d, el, k + 1)

\* rule 5: the tag with the first three class names; querySelectorAll
\* raises a SyntaxError for a selector with an empty class name
FirstThree(classes) ==
    SubSeq(classes, 1, IF Len(classes) < 3 THEN Len(classes) ELSE 3)

ClassRule(d, el) ==
    LET e == d.elem[el]
        first == FirstThree(e.classes)
    IN IF e.classes = <<>> THEN NoResult
       ELSE IF \E k \in 1..Len(first) : first[k] = "" THEN Throws
       ELSE IF Cardinality(Matches(d, ClassSel(e.tag, first))) = 1
       THEN ClassSel(e.tag, first)
       ELSE NoResult

RECURSIVE GetUniqueSelector(_, _)
GetUniqueSelector(d, el) ==
    LET byAttr == AttrRules(d, el, 1) IN
    IF byAttr.kind # "none" THEN byAttr
    ELSE LET byClass == ClassRule(d, el) IN
         IF byClass.kind # "none" THEN byClass
         ELSE IF d.parent[el] # 0
         THEN LET parentSelector == GetUniqueSelector(d, d.parent[el]) IN
              IF parentSelector.kind = "throws" THEN Throws
              ELSE ChildSel(parentSelector, d.elem[el].tag, ChildIndex(d, el))
         ELSE TagSel(d.elem[el].tag)

\* the click or input listener calls getUniqueSelector(e.target)
Synthesize ==
    /\ target = 0
    /\ \E el \in NodesOf(doc) :
         /\ target' = el
         /\ result' = GetUniqueSelector(doc, el)
    /\ UNCHANGED <<recVars, runVars, uiVars, doc>>

SelInit ==
    /\ doc \in Docs
    /\ target = 0
    /\ result = NoResult

SelStart == RecIdle /\ RunIdle /\ SelInit /\ UIIdle

SelNext == Synthesize

SpecSel == SelStart /\ [][SelNext]_vars

\* ------------------------------------------------------- RecipeRunnerUI
\* The runner window: self.recipes, and the threads run_selected_recipe
\* has started.  A thread is one call of run_recipe with its own recipe,
\* inputs, loop index and driver calls; defaults records that the user left
\* every entry of the input dialog as it was prefilled.
UIStep(action) == CHOOSE st \in RunSteps : st.action = action
UIFill(sel, v) == [action |-> "fill", timestamp |-> 0, selector |-> sel, value |-> v]

Replayed == <<UIFill("#q", "abc"), UIStep("click"), UIFill("#q", "xyz")>>
Other == <<[action |-> "wait", timestamp |-> 0, delay |-> 250], UIStep("prompt")>>

UIRecipe(name, stps) == [name |-> name, steps |-> stps]

\* the "recipes" list of recipes.json
Stored ==
    {<<UIRecipe("login", Replayed)>>,
     <<UIRecipe("login", Replayed), UIRecipe("old", Other)>>,
     <<UIRecipe("login", Other), UIRecipe("login", Replayed)>>}

\* line 57: {r["name"]: r for r in data.get("recipes", [])}
LoadRecipes(data) ==
    [n \in {data[k].name : k \in 1..Len(data)} |->
        data[CHOOSE k \in 1..Len(data) :
                /\ data[k].name = n
                /\ \A j \in (k + 1)..Len(data) : data[j].name # n]]

\* line 72
RECURSIVE FillSteps(_)
FillSteps(stps) ==
    IF stps = <<>> THEN <<>>
    ELSE IF Head(stps).action = "fill" THEN <<Head(stps)>> \o FillSteps(Tail(stps))
    ELSE FillSteps(Tail(stps))

\* lines 86-92: one entry per fill step, prefilled with the recorded value
\* and stored under the step's selector
RECURSIVE Entries(_, _)
Entries(fill_steps, entries) ==
    IF fill_steps = <<>> THEN entries
    ELSE LET step == Head(fill_steps) IN
         Entries(Tail(fill_steps),
                 [sel \in DOMAIN entries \cup {step.selector} |->
                     IF sel = step.selector THEN step.value ELSE entries[sel]])

\* lines 95-104: the Run button of the dialog copies every entry into the
\* result; a dialog closed by its window button returns the empty result
AskForInputs(fill_steps, edited, ok) ==
    IF ok
    THEN LET entries == Entries(fill_steps, <<>>) IN
         [sel \in DOMAIN entries |->
             IF sel \in edited THEN "override-value" ELSE entries[sel]]
    ELSE <<>>

Thread(rec, inp, dflt) ==
    [rpc |-> "start", recipe |-> rec, inputs |-> inp, idx |-> 0,
     calls |-> <<>>, defaults |-> dflt]

\* lines 46-61, the Reload button: the file is read again
Reload ==
    /\ Cardinality({k \in 1..Len(log) : log[k].kind = "loaded"}) < MaxReloads
    /\ \E data \in Stored :
         /\ uiRecipes' = LoadRecipes(data)
         /\ log' = Append(log, LogEntry("loaded", Cardinality(DOMAIN uiRecipes'), ""))
    /\ UNCHANGED <<recVars, selVars, threads,
                   rpc, recipe, inputs, idx, calls, closes, failedAt>>

\* lines 63-77, the Run button: the selected recipe, the input dialog when
\* the recipe has fill steps, then a new thread; nothing looks at the
\* threads started before
RunSelected ==
    /\ Len(threads) < MaxThreads
    /\ \E name \in DOMAIN uiRecipes :
         LET rec == uiRecipes[name]
             fill_steps == FillSteps(rec.steps)
         IN IF fill_steps # <<>>
            THEN \E ok \in BOOLEAN :
                 \E edited \in SUBSET {fill_steps[k].selector : k \in 1..Len(fill_steps)} :
                    threads' = Append(threads,
                        Thread(rec, AskForInputs(fill_steps, edited, ok), edited = {}))
            ELSE threads' = Append(threads, Thread(rec, <<>>, TRUE))
    /\ UNCHANGED <<recVars, runVars, selVars, uiRecipes>>

Running(t, at) == t \in 1..Len(threads) /\ threads[t].rpc = at

\* lines 107-112 in thread t
ThreadLaunch ==
    \E t \in 1..Len(threads) :
        /\ Running(t, "start")
        /\ log' = Append(log, LogEntry("running", -1, threads[t].recipe.name))
        /\ threads' = [threads EXCEPT ![t].rpc = "loop"]
        /\ UNCHANGED <<recVars, selVars, uiRecipes,
                       rpc, recipe, inputs, idx, calls, closes, failedAt>>

\* lines 115-129 in thread t
ThreadStep ==
    \E t \in 1..Len(threads) :
        /\ Running(t, "loop")
        /\ threads[t].idx < Len(threads[t].recipe.steps)
        /\ LET th == threads[t]
               step == th.recipe.steps[th.idx + 1]
               logged == Append(log, LogEntry("step", th.idx, step.action))
               called == [th EXCEPT !.calls = @ \o CallOf(th.inputs, th.idx, step)]
           IN \/ /\ IsDriverAction(step.action) \/ step.action = "wait"
                 /\ threads' = [threads EXCEPT ![t] = [called EXCEPT !.idx = @ + 1]]
                 /\ log' = logged
              \/ /\ IsDriverAction(step.action)
                 /\ threads' = [threads EXCEPT ![t] =
                        [called EXCEPT !.rpc = OnFailure(th.idx).rpc,
                                       !.idx = OnFailure(th.idx).idx]]
                 /\ log' = Append(logged, LogEntry("error", th.idx, step.action))
              \/ /\ ~IsKnownAction(step.action)
                 /\ threads' = [threads EXCEPT ![t] =
                        [called EXCEPT !.rpc = OnUnknown(th.idx).rpc,
                                       !.idx = OnUnknown(th.idx).idx]]
                 /\ log' = Append(logged, LogEntry("unknown", th.idx, step.action))
        /\ UNCHANGED <<recVars, selVars, uiRecipes,
                       rpc, recipe, inputs, idx, calls, closes, failedAt>>

\* line 131 in thread t
ThreadFinishLoop ==
    \E t \in 1..Len(threads) :
        /\ Running(t, "loop")
        /\ threads[t].idx = Len(threads[t].recipe.steps)
        /\ log' = Append(log, LogEntry("success", -1, ""))
        /\ threads' = [threads EXCEPT ![t].rpc = "finally"]
        /\ UNCHANGED <<recVars, selVars, uiRecipes,
                       rpc, recipe, inputs, idx, calls, closes, failedAt>>

\* lines 134-136 in thread t
ThreadFinally ==
    \E t \in 1..Len(threads) :
        /\ Running(t, "finally")
        /\ threads' = [threads EXCEPT ![t].rpc = "done"]
        /\ UNCHANGED <<recVars, runVars, selVars, uiRecipes>>

\* lines 21-23: the constructor loads the file; the window exists
UIInit ==
    /\ \E data \in Stored : uiRecipes = LoadRecipes(data)
    /\ threads = <<>>

UIStart == RecIdle /\ RunIdle /\ SelIdle /\ UIInit

UINext ==
    \/ Reload
    \/ RunSelected
    \/ ThreadLaunch
    \/ ThreadStep
    \/ ThreadFinishLoop
    \/ ThreadFinally

SpecUI == UIStart /\ [][UINext]_vars

\* =================================================================== claims
\* the steps of the recipe _save_recipe appended last
SavedSteps == file.recipes[Len(file.recipes)].steps
IsSaved == pc \in {"saved", "done"}

IsFill(step) == step.action = "fill"
AdjacentSameFill(s, k) ==
    /\ IsFill(s[k])
    /\ IsFill(s[k + 1])
    /\ s[k].selector = s[k + 1].selector
NoAdjacentSameFill(s) == \A k \in 1..(Len(s) - 1) : ~AdjacentSameFill(s, k)

\* C1: for every raw event stream, the step sequence the recorder saves
\* holds no two adjacent steps that are both fills on the same selector.
C1_NoAdjacentSameSelectorFills == IsSaved => NoAdjacentSameFill(SavedSteps)

\* a saved stream that had adjacent same-selector fills, on both sides of a
\* non-fill step too, and whose saved sequence still holds a fill
C1_Witness ==
    /\ IsSaved
    /\ ~NoAdjacentSameFill(raw)
    /\ \E k \in 1..(Len(raw) - 2) :
         /\ IsFill(raw[k])
         /\ ~IsFill(raw[k + 1])
         /\ IsFill(raw[k + 2])
         /\ raw[k].selector = raw[k + 2].selector
    /\ \E k \in 1..Len(SavedSteps) : IsFill(SavedSteps[k])

\* C2: the batch pass applied to the output of the live pass (with the
\* pending fills flushed) equals the batch pass applied to the raw stream,
\* step for step; the saved sequence is that sequence.
C2_BatchOfLiveEqualsBatchOfRaw ==
    /\ CollapseFills(FlushedSteps(steps, pending)) = CollapseFills(raw)
    /\ IsSaved => SavedSteps = CollapseFills(raw)

\* a saved stream in which a selector is filled, another selector is filled,
\* and the first is filled again with another value, all in one run
C2_Witness ==
    /\ IsSaved
    /\ \E k \in 1..(Len(raw) - 2) :
         /\ IsFill(raw[k]) /\ IsFill(raw[k + 1]) /\ IsFill(raw[k + 2])
         /\ raw[k].selector = raw[k + 2].selector
         /\ raw[k].selector # raw[k + 1].selector
         /\ raw[k].value # raw[k + 2].value

\* C3: the batch pass is idempotent, on raw streams and on reduced ones:
\* collapsing a collapsed sequence changes nothing, order included.
C3_BatchIdempotent ==
    /\ CollapseFills(CollapseFills(raw)) = CollapseFills(raw)
    /\ CollapseFills(CollapseFills(steps)) = CollapseFills(steps)

\* a stream the batch pass shortens, with fills on both sides of a non-fill
C3_Witness ==
    /\ Len(CollapseFills(raw)) < Len(raw)
    /\ \E k \in 1..(Len(raw) - 2) :
         /\ IsFill(raw[k])
         /\ ~IsFill(raw[k + 1])
         /\ IsFill(raw[k + 2])

\* the run of fills at the end of a stream
RECURSIVE TrailingRun(_)
TrailingRun(s) ==
    IF s = <<>> \/ ~IsFill(s[Len(s)])
    THEN <<>>
    ELSE Append(TrailingRun(SubSeq(s, 1, Len(s) - 1)), s[Len(s)])

RunSelectorsOf(run) == {run[k].selector : k \in 1..Len(run)}
LastFillOn(run, sel) ==
    run[CHOOSE k \in 1..Len(run) :
          /\ run[k].selector = sel
          /\ \A j \in (k + 1)..Len(run) : run[j].selector # sel]

\* emitted is one fill per selector of the run, each the run's last fill on it
LastWriteWins(run, emitted) ==
    /\ Len(emitted) = Cardinality(RunSelectorsOf(run))
    /\ \A sel \in RunSelectorsOf(run) :
         \E k \in 1..Len(emitted) : emitted[k] = LastFillOn(run, sel)

\* C4: when a run of fills is flushed, by the next non-fill event or by save,
\* the live pass emits exactly one fill per selector of the run, with the
\* value of the run's last fill on that selector; after a non-fill event the
\* pending map is empty.
C4_LastWriteWins ==
    [][/\ (Len(raw') = Len(raw) + 1 /\ ~IsFill(raw'[Len(raw')])) =>
            /\ Len(steps') >= Len(steps) + 1
            /\ steps'[Len(steps')] = raw'[Len(raw')]
            /\ SubSeq(steps', 1, Len(steps)) = steps
            /\ LastWriteWins(TrailingRun(raw),
                             SubSeq(steps', Len(steps) + 1, Len(steps') - 1))
            /\ pending' = <<>>
       /\ (IsSaved' /\ ~IsSaved) =>
            /\ SubSeq(steps', 1, Len(steps)) = steps
            /\ LastWriteWins(TrailingRun(raw),
                             SubSeq(steps', Len(steps) + 1, Len(steps')))
      ]_vars

\* a non-fill event has just flushed a run that filled one selector twice,
\* with two values, and the flushed fill carries the second value
C4_Witness ==
    /\ Len(raw) >= 3
    /\ pending = <<>>
    /\ ~IsFill(raw[Len(raw)])
    /\ IsFill(raw[Len(raw) - 1])
    /\ IsFill(raw[Len(raw) - 2])
    /\ raw[Len(raw) - 1].selector = raw[Len(raw) - 2].selector
    /\ raw[Len(raw) - 1].value # raw[Len(raw) - 2].value
    /\ Len(steps) >= 2
    /\ steps[Len(steps) - 1] = raw[Len(raw) - 1]

\* a step without its timestamp and click text
Shape(step) ==
    CASE step.action = "fill" -> <<"fill", step.selector, step.value>>
      [] step.action = "click" -> <<"click", step.selector>>
      [] step.action = "navigate" -> <<"navigate", step.url>>
      [] OTHER -> <<step.action>>
Shapes(s) == [k \in 1..Len(s) |-> Shape(s[k])]

\* C5: a session that opens on the start URL, receives the inputs "a", "ab",
\* "abc" on #q and a click on #submit, and is stopped, saves exactly
\* [navigate(start URL), fill(#q, "abc"), click(#submit)].  While the start
\* page loads the browser reports at most the navigation to the start URL.
C5_EndToEnd ==
    ( /\ pc = "done"
      /\ endedBy = "stop"
      /\ Shapes(loadRaw) \in {<<>>, <<<<"navigate", start_url>>>>}
      /\ Shapes(armedRaw) = << <<"fill", "#q", "a">>, <<"fill", "#q", "ab">>,
                               <<"fill", "#q", "abc">>, <<"click", "#submit">> >> )
    => Shapes(SavedSteps) = << <<"navigate", start_url>>,
                               <<"fill", "#q", "abc">>, <<"click", "#submit">> >>

\* C6: in every recording the first step is the navigate step of the
\* user-supplied start URL, whatever the browser delivers during the load.
C6_FirstStepIsStartNavigate ==
    pc \in {"armed", "done"} => Shape(steps[1]) = <<"navigate", start_url>>

\* every step captured so far is in the sequence s
HoldsCaptured(s) ==
    \A k \in 1..Len(FlushedSteps(steps, pending)) :
        \E j \in 1..Len(s) : s[j] = FlushedSteps(steps, pending)[k]

\* C10: however a recording that start_recording began ends, by the stop
\* command or by an interrupt at any point, _save_recipe has appended a
\* recipe under the recording's name that holds every captured step.
C10_SavesOnEveryTermination ==
    (pc \in {"done", "aborted"} /\ endedBy \in {"stop", "interrupt"}) =>
        /\ file.state = "ok"
        /\ file.recipes # <<>>
        /\ file.recipes[Len(file.recipes)].name = recipe_name
        /\ HoldsCaptured(SavedSteps)

\* the step of the recipe a call was made for
StepOfCall(c) == recipe[c.i + 1]

\* C7: every fill step reaches the driver with overrides[selector] when the
\* override map has the step's selector, and with the recorded value
\* otherwise; with an empty map every fill uses its recorded value.
C7_FillUsesOverrideOrRecorded ==
    /\ \A k \in 1..Len(calls) :
         calls[k].op = "fill" =>
            /\ StepOfCall(calls[k]).action = "fill"
            /\ calls[k].target = StepOfCall(calls[k]).selector
            /\ (calls[k].target \in DOMAIN inputs
                  => calls[k].value = inputs[calls[k].target])
            /\ (calls[k].target \notin DOMAIN inputs
                  => calls[k].value = StepOfCall(calls[k]).value)
    /\ \A i \in 0..(idx - 1) :
         recipe[i + 1].action = "fill" =>
            \E k \in 1..Len(calls) : calls[k].i = i /\ calls[k].op = "fill"

\* a finished run that filled one selector with its override, which differs
\* from the recorded value, and another selector with its recorded value
C7_Witness ==
    /\ rpc = "done"
    /\ \E k \in 1..Len(calls) :
         /\ calls[k].op = "fill"
         /\ calls[k].target \in DOMAIN inputs
         /\ calls[k].value = "override-value"
         /\ StepOfCall(calls[k]).value = "abc"
    /\ \E k \in 1..Len(calls) :
         /\ calls[k].op = "fill"
         /\ calls[k].target \notin DOMAIN inputs
         /\ calls[k].value = StepOfCall(calls[k]).value

HasLog(kind, i) == \E k \in 1..Len(log) : log[k].kind = kind /\ log[k].i = i

\* C8: after the driver call of step k fails no call is made for a later
\* step, the failure is reported, and the session is closed exactly once;
\* a run without a failure closes it exactly once too, after the last step.
C8_FailureStopsRunAndClosesOnce ==
    /\ failedAt >= 0 =>
         /\ \A k \in 1..Len(calls) : calls[k].i <= failedAt
         /\ calls[Len(calls)].i = failedAt
         /\ HasLog("error", failedAt)
         /\ ~HasLog("success", -1)
         /\ rpc \in {"finally", "done"}
    /\ closes <= 1
    /\ rpc = "done" <=> closes = 1
    /\ (rpc = "done" /\ failedAt = -1) =>
         /\ idx = Len(recipe)
         /\ HasLog("success", -1)

\* a finished run whose second step failed, with a step left unexecuted
C8_Witness ==
    /\ rpc = "done"
    /\ closes = 1
    /\ failedAt = 1
    /\ Len(recipe) >= 3
    /\ recipe[2].action = "click"

\* C9: a step whose action is none of navigate, click, fill, wait (a prompt
\* step) is logged as unknown and does not abort the run: the run goes on
\* to the next step, the later steps are executed in order, and a run in
\* which no driver call failed finishes successfully with every step done.
C9_UnknownActionContinues ==
    /\ \A i \in 0..(Len(recipe) - 1) :
         HasLog("unknown", i) <=> (i < idx /\ ~IsKnownAction(recipe[i + 1].action))
    /\ failedAt >= 0 => IsDriverAction(recipe[failedAt + 1].action)
    /\ \A k \in 1..(Len(calls) - 1) : calls[k].i < calls[k + 1].i
    /\ (rpc = "done" /\ failedAt = -1) =>
         /\ HasLog("success", -1)
         /\ \A i \in 0..(Len(recipe) - 1) :
              IsKnownAction(recipe[i + 1].action) =>
                 \E k \in 1..Len(calls) : calls[k].i = i

\* a successful run of a recipe with a prompt step before its last step,
\* which is a driver step that was called
C9_Witness ==
    /\ rpc = "done"
    /\ failedAt = -1
    /\ HasLog("success", -1)
    /\ \E i \in 0..(Len(recipe) - 2) :
         /\ recipe[i + 1].action = "prompt"
         /\ HasLog("unknown", i)
         /\ IsDriverAction(recipe[Len(recipe)].action)
         /\ calls # <<>>
         /\ calls[Len(calls)].i = Len(recipe) - 1

\* C11: once the browser is launched, every way start_recording ends (stop,
\* interrupt, a failed initial navigation) has called browser.close().
C11_BrowserClosedOnEveryExit ==
    pc \in {"done", "aborted"} => browser = "closed"

NonFills(s) == SelectSeq(s, LAMBDA st : ~IsFill(st))
\* number of non-fill steps of s before position k
NonFillsBefore(s, k) == Len(NonFills(SubSeq(s, 1, k - 1)))

\* C19: reduction never drops, duplicates or reorders the non-fill steps and
\* never moves a fill across a non-fill step: the non-fill steps of the saved
\* sequence are those of the raw stream in arrival order, and every saved
\* fill is one of the raw fill events and has the same non-fill steps before
\* it as that event.
C19_NonFillsKeptFillsStayInTheirRun ==
    IsSaved =>
        /\ NonFills(SavedSteps) = NonFills(raw)
        /\ \A k \in 1..Len(SavedSteps) :
             IsFill(SavedSteps[k]) =>
                \E j \in 1..Len(raw) :
                   /\ raw[j] = SavedSteps[k]
                   /\ NonFillsBefore(raw, j) = NonFillsBefore(SavedSteps, k)

\* a saved stream with a prompt, fills on both sides of a non-fill step, and
\* a fill still pending when it was saved
C19_Witness ==
    /\ IsSaved
    /\ \E k \in 1..Len(raw) : raw[k].action = "prompt"
    /\ \E k \in 1..(Len(raw) - 2) :
         /\ IsFill(raw[k])
         /\ ~IsFill(raw[k + 1])
         /\ IsFill(raw[k + 2])
    /\ IsFill(SavedSteps[Len(SavedSteps)])

\* C12: when recipes.json holds a readable list R, after _save_recipe it
\* holds R followed by the one new recipe: the recipes of R are unchanged
\* and keep their positions, over any sequence of recordings.
C12_StoreAppendOnly ==
    [][(file' # file /\ file.state = "ok") =>
          /\ file'.state = "ok"
          /\ Len(file'.recipes) = Len(file.recipes) + 1
          /\ SubSeq(file'.recipes, 1, Len(file.recipes)) = file.recipes
          /\ file'.recipes[Len(file'.recipes)].name = recipe_name
          /\ file'.recipes[Len(file'.recipes)].steps =
                CollapseFills(FlushedSteps(steps, pending))
      ]_vars

\* two recordings were saved after the recipe the file started with
C12_Witness ==
    /\ pc = "ssaved"
    /\ Len(file.recipes) = 3
    /\ file.recipes[1] = OldRecipe
    /\ file.recipes[2].steps # <<>>
    /\ file.recipes[3].steps # <<>>

\* C13: in every store state reached by recordings no recipe has an empty
\* name and no two recipes have the same name.
C13_NamesNonEmptyAndUnique ==
    \A i \in 1..Len(file.recipes) :
        /\ file.recipes[i].name # ""
        /\ \A j \in 1..Len(file.recipes) :
             file.recipes[i].name = file.recipes[j].name => i = j

\* the name t stands between braces in the characters cs: "{", then t, then
\* "}", where t is not empty and holds no brace
OccursInBraces(t, cs) ==
    \E i \in 1..Len(cs) : \E j \in (i + 2)..Len(cs) :
        /\ cs[i] = "{"
        /\ cs[j] = "}"
        /\ \A k \in (i + 1)..(j - 1) : cs[k] \notin {"{", "}"}
        /\ SubSeq(cs, i + 1, j - 1) = Chars(t)

SavedRecipe == file.recipes[Len(file.recipes)]

C17_WaitSleepsDelayMs ==
    \A i \in 0..(idx - 1) :
        (recipe[i + 1].action = "wait" /\ "delayMs" \in DOMAIN recipe[i + 1]) =>
            \E k \in 1..Len(calls) :
                /\ calls[k].i = i
                /\ calls[k].op = "sleep"
                /\ calls[k].value = recipe[i + 1].delayMs

\* the uniqueness test of each rule, stated on the document
OnlyOneWith(d, el, rule) ==
    /\ AttrOf(d.elem[el], rule) # ""
    /\ \A n \in NodesOf(d) \ {el} :
         AttrOf(d.elem[n], rule) # AttrOf(d.elem[el], rule)

OnlyOneWithClasses(d, el) ==
    /\ d.elem[el].classes # <<>>
    /\ \A n \in NodesOf(d) \ {el} :
         ~(/\ d.elem[n].tag = d.elem[el].tag
           /\ \A k \in 1..3 :
                k <= Len(d.elem[el].classes) =>
                    d.elem[el].classes[k] \in ClassSet(d.elem[n]))

\* the form the precedence id, name, aria-label, placeholder, classes,
\* parent chain, tag gives the element
ExpectedForm(d, el) ==
    IF OnlyOneWith(d, el, "id") THEN "id"
    ELSE IF OnlyOneWith(d, el, "name") THEN "name"
    ELSE IF OnlyOneWith(d, el, "aria") THEN "aria"
    ELSE IF OnlyOneWith(d, el, "placeholder") THEN "placeholder"
    ELSE IF OnlyOneWithClasses(d, el) THEN "class"
    ELSE IF d.parent[el] # 0 THEN "child"
    ELSE "tag"

Returned == target # 0 /\ result.kind # "throws"

C16_SelectorMatchesOnlyTheTarget ==
    Returned => Matches(doc, result) = {target}

InProgress == {t \in 1..Len(threads) : threads[t].rpc # "done"}
SessionOpen == {t \in 1..Len(threads) : threads[t].rpc \in {"loop", "finally"}}

\* C18: for any sequence of Run commands, at most one replay run is in
\* progress and at most one replay browser session is open at any moment.
C18_OneReplayAtATime ==
    /\ Cardinality(InProgress) <= 1
    /\ Cardinality(SessionOpen) <= 1

\* C20: when every prefilled entry of the input dialog is left unchanged,
\* replay sends each fill step to the driver with that step's own recorded
\* value, also for several fill steps on one selector that non-fill steps
\* separate.
C20_DefaultsReproduceTheRecording ==
    \A t \in 1..Len(threads) :
        threads[t].defaults =>
            \A k \in 1..Len(threads[t].calls) :
                LET call == threads[t].calls[k] IN
                call.op = "fill" =>
                    call.value = threads[t].recipe.steps[call.i + 1].value

====
